---------------------------- MODULE Spec2Model ----------------------------
(***************************************************************************)
(* Device / surface lifecycle of the DirectComposition + wgpu window host  *)
(* (src/src/main.rs).  The Window struct's fields are the state; each      *)
(* window message is an operation.  paint_handler is followed call by      *)
(* call (pc is the next fallible call), every other handler is one step.   *)
(* The window system, the compositor and the GPU are the environment:      *)
(* client-area size, update region, device removal, live composition       *)
(* targets and the outcome of every fallible call.                         *)
(***************************************************************************)
EXTENDS Integers, Sequences, FiniteSets, TLC

VARIABLES
    hwnd,        \* Window.hwnd (main.rs:26)
    userdata,    \* GWLP_USERDATA slot of the window: the controller pointer (main.rs:202)
    device,      \* Window.device: Option<ID3D11Device> (main.rs:27)
    desktop,     \* Window.desktop: Option<IDCompositionDesktopDevice> (main.rs:28)
    target,      \* Window.target: Option<IDCompositionTarget> (main.rs:29)
    wgpu_state,  \* Window.wgpu_state: Option<SurfaceState> (main.rs:31)
    pc,          \* position of the message loop / of paint_handler
    msg,         \* message most recently handed to wndproc
    call,        \* identity of the running create_device_resources call (None: no call)
    l_target,    \* local `target` of create_device_resources (main.rs:58-63)
    l_rect,      \* local width/height read at main.rs:69-72
    steps,       \* fallible calls made so far by the current / last paint
    err,         \* first failure of the current / last paint ("none": no failure)
    client,      \* environment: client-area size of the window
    delivered,   \* environment: size carried by the last WM_SIZE handled
    invalid,     \* environment: the window has a pending update region
    removed,     \* environment: the 3D device held in `device` was removed
    liveTargets, \* environment: composition targets alive on the window handle
    quit,        \* environment: WM_QUIT has been posted
    frame,       \* last frame presented by SurfaceState::clear
    last_lparam, \* lparam of the last WM_SIZE handled (main.rs:111)
    caps         \* swapchain_capabilities.formats of the last SurfaceState::new

vars == << hwnd, userdata, device, desktop, target, wgpu_state, pc, msg, call,
           l_target, l_rect, steps, err, client, delivered, invalid, removed,
           liveTargets, quit, frame, last_lparam, caps >>

fields == << device, desktop, target, wgpu_state >>
locals == << call, l_target, l_rect >>
env    == << client, delivered, invalid, removed, quit >>

-----------------------------------------------------------------------------
(* Bounds of the model *)

\* client-area widths and heights are drawn from 0..MaxDim
MaxDim == 1
\* identities available to name the objects of one create_device_resources call
NumIds == 5

Dims == 0 .. MaxDim
Ids  == 1 .. NumIds

\* Option<T>: None is the empty sequence, Some(x) the one-element sequence
None      == << >>
Some(x)   == << x >>
IsSome(o) == o # None
Held(o)   == { o[i] : i \in 1 .. Len(o) }

NullPtr  == "NULL"
This     == "this"
NullHwnd == "HWND(0)"
TheHwnd  == "HWND(1)"

WM_NCCREATE == "WM_NCCREATE"
WM_PAINT    == "WM_PAINT"
WM_SIZE     == "WM_SIZE"
WM_DESTROY  == "WM_DESTROY"
WM_OTHER    == "WM_OTHER"
Messages == { WM_PAINT, WM_SIZE, WM_DESTROY, WM_OTHER }

\* texture formats an adapter may report (main.rs:261-267)
Bgra8UnormSrgb == "Bgra8UnormSrgb"
Rgba8Unorm     == "Rgba8Unorm"
FormatSets == SUBSET { Bgra8UnormSrgb, Rgba8Unorm }

\* failures of the calls SurfaceState::new unwraps with expect (main.rs:231-259)
SurfaceFaults == { "none", "create_surface", "request_adapter", "request_device" }

-----------------------------------------------------------------------------
(* Pure helpers *)

LowordByteMask(x) == x % 256

\* main.rs:364-366
loword(x) == x % 65536

\* main.rs:369-371
hiword(x) == (x \div 65536) % 65536

\* the window system packs the new client size into the WM_SIZE lparam
MakeLParam(w, h) == (w % 65536) + 65536 * (h % 65536)

\* identities held by some field or still alive in the compositor
UsedIds ==
    Held(device) \cup Held(desktop) \cup Held(target) \cup Held(l_target)
        \cup { wgpu_state[i].visual : i \in 1 .. Len(wgpu_state) }
        \cup liveTargets

\* a new object is distinct from every object still referenced
FreshId == CHOOSE i \in Ids \ UsedIds : \A j \in Ids \ UsedIds : i <= j

\* the fallible calls of create_device_resources, in program order (main.rs:51-82)
CreateOrder ==
    << "create_device_3d", "create_device_2d", "DCompositionCreateDevice2",
       "CreateTargetForHwnd", "CreateVisual_root", "SetRoot", "CreateVisual_wgpu",
       "AddVisual", "GetClientRect", "SurfaceState_new", "Commit" >>

CreateSteps == { CreateOrder[i] : i \in 1 .. Len(CreateOrder) }

\* the calls of create_device_resources that return a Result propagated by `?`
NativeSteps == CreateSteps \ { "SurfaceState_new" }

IndexOf(seq, s) == CHOOSE i \in 1 .. Len(seq) : seq[i] = s

\* the prefix of CreateOrder that ends with call s
UpTo(s) == SubSeq(CreateOrder, 1, IndexOf(CreateOrder, s))

-----------------------------------------------------------------------------
(* Code of the handlers, as operators *)

PaintBranchAlwaysCreate(dev) == "create_device_3d"

\* paint_handler: `if let Some(device) = &self.device { check } else { create }`
PaintBranch(dev) ==
    IF IsSome(dev) THEN "GetDeviceRemovedReason" ELSE "create_device_3d"

OnPaintErrorKeepsDevice(dev) == dev

\* message_handler: the unwrap_or_else closure runs `self.device = None`
OnPaintError(dev) == None

ReleaseTargetSkipped(t, live) == live

\* create_device_resources: `self.target = None` releases the target held so far
ReleaseTarget(t, live) == live \ Held(t)

\* an early return drops the local `target`, which releases it
DropLocal(t, live) == live \ Held(t)

SizeHandlerWidthOnly(state, lparam) ==
    IF IsSome(state)
    THEN Some([ state[1] EXCEPT !.width = loword(lparam) ])
    ELSE state

SizeHandlerBuildsState(state, lparam) ==
    Some([ width  |-> loword(lparam), height |-> hiword(lparam),
           visual |-> FreshId, format |-> Bgra8UnormSrgb ])

\* size_handler: the surface configuration of an existing state takes the
\* low and high word of lparam; nothing happens without a state
size_handler(state, lparam) ==
    IF IsSome(state)
    THEN Some([ state[1] EXCEPT !.width = loword(lparam), !.height = hiword(lparam) ])
    ELSE state

SurfaceStateNewFallsBack(visual, width, height, formats, fault) ==
    IF fault # "none" \/ formats = {} THEN None
    ELSE Some([ width |-> width, height |-> height, visual |-> visual,
                format |-> IF Bgra8UnormSrgb \in formats THEN Bgra8UnormSrgb
                           ELSE CHOOSE f \in formats : TRUE ])

\* SurfaceState::new: every expect that fails panics (no value: None);
\* otherwise the state is configured at the given size with the selected format
SurfaceStateNew(visual, width, height, formats, fault) ==
    IF fault # "none" THEN None
    ELSE IF Bgra8UnormSrgb \notin formats THEN None
    ELSE Some([ width |-> width, height |-> height, visual |-> visual,
                format |-> Bgra8UnormSrgb ])

ValidateRectNever(inv) == inv

\* ValidateRect(hwnd, None) empties the update region
ValidateRect(inv) == FALSE

-----------------------------------------------------------------------------
Init ==
    /\ hwnd = NullHwnd
    /\ userdata = NullPtr
    /\ device = None
    /\ desktop = None
    /\ target = None
    /\ wgpu_state = None
    /\ pc = "idle"
    /\ msg = "none"
    /\ call = None
    /\ l_target = None
    /\ l_rect = None
    /\ steps = << >>
    /\ err = "none"
    /\ client \in Dims \X Dims
    /\ delivered = None
    /\ invalid = FALSE
    /\ removed = FALSE
    /\ liveTargets = {}
    /\ quit = FALSE
    /\ frame = None
    /\ last_lparam = 0
    /\ caps = {}

\* the message loop is waiting in GetMessageA and the window still exists
Idle == pc = "idle" /\ ~quit

-----------------------------------------------------------------------------
(* wndproc before and at the association of the controller with the window *)

AssociatedAlways == TRUE

\* wndproc: the controller pointer read from GWLP_USERDATA is not null
Associated == userdata = This

\* wndproc: a message other than WM_NCCREATE while GWLP_USERDATA is null
PreAssocMsg(m) ==
    /\ Idle
    /\ ~Associated
    /\ msg' = m
    /\ UNCHANGED << hwnd, userdata, fields, pc, locals, steps, err, env,
                    liveTargets, frame, last_lparam, caps >>

NcCreateKeepsHandle ==
    /\ Idle
    /\ ~Associated
    /\ msg' = WM_NCCREATE
    /\ userdata' = This
    /\ UNCHANGED << hwnd, fields, pc, locals, steps, err, env, liveTargets, frame,
                    last_lparam, caps >>

\* wndproc: WM_NCCREATE stores the handle and the controller pointer
NcCreate ==
    /\ Idle
    /\ ~Associated
    /\ msg' = WM_NCCREATE
    /\ hwnd' = TheHwnd
    /\ userdata' = This
    /\ UNCHANGED << fields, pc, locals, steps, err, env, liveTargets, frame,
                    last_lparam, caps >>

-----------------------------------------------------------------------------
(* Environment *)

\* part of the client area becomes invalid: the window system will post WM_PAINT
Invalidate ==
    /\ Idle
    /\ Associated
    /\ ~invalid
    /\ invalid' = TRUE
    /\ UNCHANGED << hwnd, userdata, fields, pc, msg, locals, steps, err, client,
                    delivered, removed, quit, liveTargets, frame, last_lparam, caps >>

\* the system removes the 3D device the controller holds
DeviceRemoved ==
    /\ pc \notin { "aborted", "exited" }
    /\ IsSome(device)
    /\ ~removed
    /\ removed' = TRUE
    /\ UNCHANGED << hwnd, userdata, fields, pc, msg, locals, steps, err, client,
                    delivered, invalid, quit, liveTargets, frame, last_lparam, caps >>

-----------------------------------------------------------------------------
(* message_handler: WM_SIZE, WM_DESTROY, others *)

\* the client area becomes w x h and WM_SIZE carrying it is handled
SizeMsg(w, h) ==
    /\ Idle
    /\ Associated
    /\ msg' = WM_SIZE
    /\ client' = << w, h >>
    /\ delivered' = Some(<< w, h >>)
    /\ last_lparam' = MakeLParam(w, h)
    /\ wgpu_state' = size_handler(wgpu_state, last_lparam')
    /\ UNCHANGED << hwnd, userdata, device, desktop, target, pc, locals, steps,
                    err, invalid, removed, quit, liveTargets, frame, caps >>

DestroyMsg ==
    /\ Idle
    /\ Associated
    /\ msg' = WM_DESTROY
    /\ quit' = TRUE
    /\ UNCHANGED << hwnd, userdata, fields, pc, locals, steps, err, client,
                    delivered, invalid, removed, liveTargets, frame, last_lparam, caps >>

OtherMsg ==
    /\ Idle
    /\ Associated
    /\ msg' = WM_OTHER
    /\ UNCHANGED << hwnd, userdata, fields, pc, locals, steps, err, env,
                    liveTargets, frame, last_lparam, caps >>

\* run: GetMessageA returns false once WM_QUIT is retrieved
LoopExit ==
    /\ pc = "idle"
    /\ quit
    /\ pc' = "exited"
    /\ UNCHANGED << hwnd, userdata, fields, msg, locals, steps, err, env,
                    liveTargets, frame, last_lparam, caps >>

-----------------------------------------------------------------------------
(* message_handler: WM_PAINT, one step per fallible call of paint_handler *)

\* A panic inside the window procedure ends the process.
Panics(s) ==
    /\ err' = s
    /\ steps' = Append(steps, s)
    /\ pc' = "aborted"
    /\ UNCHANGED << hwnd, userdata, fields, msg, locals, env, liveTargets,
                    frame, last_lparam >>

PaintFailsAborts(s) == Panics(s) /\ UNCHANGED caps

PaintFailsClearsSurface(s) ==
    /\ err' = s
    /\ steps' = Append(steps, s)
    /\ device' = None
    /\ wgpu_state' = None
    /\ removed' = FALSE
    /\ liveTargets' = liveTargets \ Held(l_target)
    /\ call' = None
    /\ l_target' = None
    /\ l_rect' = None
    /\ pc' = "idle"
    /\ UNCHANGED << hwnd, userdata, desktop, target, msg, client, delivered,
                    invalid, quit, frame, last_lparam, caps >>

\* A call returned Err: `?` returns it from paint_handler (dropping the locals
\* of create_device_resources) and the unwrap_or_else closure handles it.
PaintFails(s) ==
    /\ err' = s
    /\ steps' = Append(steps, s)
    /\ device' = OnPaintError(device)
    /\ removed' = FALSE
    /\ liveTargets' = DropLocal(l_target, liveTargets)
    /\ call' = None
    /\ l_target' = None
    /\ l_rect' = None
    /\ pc' = "idle"
    /\ UNCHANGED << hwnd, userdata, desktop, target, wgpu_state, msg, client,
                    delivered, invalid, quit, frame, last_lparam, caps >>

\* A call of create_device_resources that changes no field returned Ok.
Proceeds(s, next) ==
    /\ steps' = Append(steps, s)
    /\ pc' = next
    /\ UNCHANGED << hwnd, userdata, fields, msg, locals, err, env, liveTargets,
                    frame, last_lparam, caps >>

\* WM_PAINT is dispatched: paint_handler branches on self.device
PaintStart ==
    /\ Idle
    /\ Associated
    /\ invalid
    /\ msg' = WM_PAINT
    /\ steps' = << >>
    /\ err' = "none"
    /\ pc' = PaintBranch(device)
    /\ call' = IF PaintBranch(device) = "create_device_3d" THEN Some(FreshId) ELSE None
    /\ UNCHANGED << hwnd, userdata, fields, l_target, l_rect, env, liveTargets,
                    frame, last_lparam, caps >>

\* device.GetDeviceRemovedReason()?
GetDeviceRemovedReason ==
    /\ pc = "GetDeviceRemovedReason"
    /\ IF removed
       THEN PaintFails("GetDeviceRemovedReason")
       ELSE Proceeds("GetDeviceRemovedReason", "clear")

\* let device_3d = create_device_3d()?
create_device_3d(ok) ==
    /\ pc = "create_device_3d"
    /\ IF ok
       THEN Proceeds("create_device_3d", "create_device_2d")
       ELSE PaintFails("create_device_3d")

\* let device_2d = create_device_2d(&device_3d)?; self.device = Some(device_3d)
create_device_2d(ok) ==
    /\ pc = "create_device_2d"
    /\ IF ok
       THEN /\ device' = call
            /\ removed' = FALSE
            /\ steps' = Append(steps, "create_device_2d")
            /\ pc' = "DCompositionCreateDevice2"
            /\ UNCHANGED << hwnd, userdata, desktop, target, wgpu_state, msg,
                            locals, err, client, delivered, invalid, quit,
                            liveTargets, frame, last_lparam, caps >>
       ELSE PaintFails("create_device_2d")

\* let desktop = DCompositionCreateDevice2(&device_2d)?; self.target = None
DCompositionCreateDevice2(ok) ==
    /\ pc = "DCompositionCreateDevice2"
    /\ IF ok
       THEN /\ target' = None
            /\ liveTargets' = ReleaseTarget(target, liveTargets)
            /\ steps' = Append(steps, "DCompositionCreateDevice2")
            /\ pc' = "CreateTargetForHwnd"
            /\ UNCHANGED << hwnd, userdata, device, desktop, wgpu_state, msg,
                            locals, err, env, frame, last_lparam, caps >>
       ELSE PaintFails("DCompositionCreateDevice2")

\* let target = desktop.CreateTargetForHwnd(self.hwnd, true)?
\* (the compositor refuses a window that already has a target)
CreateTargetForHwnd(ok) ==
    /\ pc = "CreateTargetForHwnd"
    /\ IF ok /\ liveTargets = {}
       THEN /\ l_target' = call
            /\ liveTargets' = liveTargets \cup Held(call)
            /\ steps' = Append(steps, "CreateTargetForHwnd")
            /\ pc' = "CreateVisual_root"
            /\ UNCHANGED << hwnd, userdata, fields, msg, call, l_rect, err, env,
                            frame, last_lparam, caps >>
       ELSE PaintFails("CreateTargetForHwnd")

\* let root_visual = desktop.CreateVisual()?
CreateVisual_root(ok) ==
    /\ pc = "CreateVisual_root"
    /\ IF ok
       THEN Proceeds("CreateVisual_root", "SetRoot")
       ELSE PaintFails("CreateVisual_root")

\* target.SetRoot(&root_visual)?; self.target = Some(target)
SetRoot(ok) ==
    /\ pc = "SetRoot"
    /\ IF ok
       THEN /\ target' = l_target
            /\ l_target' = None
            /\ steps' = Append(steps, "SetRoot")
            /\ pc' = "CreateVisual_wgpu"
            /\ UNCHANGED << hwnd, userdata, device, desktop, wgpu_state, msg,
                            call, l_rect, err, env, liveTargets, frame, last_lparam, caps >>
       ELSE PaintFails("SetRoot")

\* let wgpu_visual = desktop.CreateVisual()?
CreateVisual_wgpu(ok) ==
    /\ pc = "CreateVisual_wgpu"
    /\ IF ok
       THEN Proceeds("CreateVisual_wgpu", "AddVisual")
       ELSE PaintFails("CreateVisual_wgpu")

\* root_visual.AddVisual(&wgpu_visual, false, None)?
AddVisual(ok) ==
    /\ pc = "AddVisual"
    /\ IF ok
       THEN Proceeds("AddVisual", "GetClientRect")
       ELSE PaintFails("AddVisual")

\* GetClientRect(self.hwnd, &mut rect)?; width and height of the rectangle
GetClientRect(ok) ==
    /\ pc = "GetClientRect"
    /\ IF ok
       THEN /\ l_rect' = Some(client)
            /\ steps' = Append(steps, "GetClientRect")
            /\ pc' = "SurfaceState_new"
            /\ UNCHANGED << hwnd, userdata, fields, msg, call, l_target, err,
                            env, liveTargets, frame, last_lparam, caps >>
       ELSE PaintFails("GetClientRect")

\* let state = block_on(SurfaceState::new(..)); self.wgpu_state.replace(state)
SurfaceState_new(formats, fault) ==
    /\ pc = "SurfaceState_new"
    /\ caps' = IF fault = "none" THEN formats ELSE caps
    /\ LET state == SurfaceStateNew(call[1], l_rect[1][1], l_rect[1][2],
                                    formats, fault)
       IN  IF state = None
           THEN Panics("SurfaceState_new")
           ELSE /\ wgpu_state' = state
                /\ steps' = Append(steps, "SurfaceState_new")
                /\ pc' = "Commit"
                /\ UNCHANGED << hwnd, userdata, device, desktop, target, msg,
                                locals, err, env, liveTargets, frame, last_lparam >>

\* desktop.Commit()?; self.desktop = Some(desktop); Ok(())
Commit(ok) ==
    /\ pc = "Commit"
    /\ IF ok
       THEN /\ desktop' = call
            /\ call' = None
            /\ l_rect' = None
            /\ steps' = Append(steps, "Commit")
            /\ pc' = "clear"
            /\ UNCHANGED << hwnd, userdata, device, target, wgpu_state, msg,
                            l_target, err, env, liveTargets, frame, last_lparam, caps >>
       ELSE PaintFails("Commit")

\* self.wgpu_state.as_ref().unwrap().clear(): the unwrap panics without a
\* state, the expect panics when no texture is acquired; otherwise one frame
\* of the configured size is cleared, submitted and presented
clear(acquired) ==
    /\ pc = "clear"
    /\ IF IsSome(wgpu_state) /\ acquired
       THEN /\ frame' = Some([ width  |-> wgpu_state[1].width,
                               height |-> wgpu_state[1].height,
                               visual |-> wgpu_state[1].visual ])
            /\ steps' = Append(steps, "clear")
            /\ pc' = "ValidateRect"
            /\ UNCHANGED << hwnd, userdata, fields, msg, locals, err, env,
                            liveTargets, last_lparam, caps >>
       ELSE Panics("clear") /\ UNCHANGED caps

\* ValidateRect(self.hwnd, None).ok()?; Ok(())
ValidateRectStep(ok) ==
    /\ pc = "ValidateRect"
    /\ IF ok
       THEN /\ invalid' = ValidateRect(invalid)
            /\ steps' = Append(steps, "ValidateRect")
            /\ pc' = "idle"
            /\ UNCHANGED << hwnd, userdata, fields, msg, locals, err, client,
                            delivered, removed, quit, liveTargets, frame, last_lparam, caps >>
       ELSE PaintFails("ValidateRect")

-----------------------------------------------------------------------------
(* Specifications *)

\* the steps of create_device_resources, each call succeeding or failing as
\* the flag says
CreateStep(ok) ==
    \/ create_device_3d(ok)
    \/ create_device_2d(ok)
    \/ DCompositionCreateDevice2(ok)
    \/ CreateTargetForHwnd(ok)
    \/ CreateVisual_root(ok)
    \/ SetRoot(ok)
    \/ CreateVisual_wgpu(ok)
    \/ AddVisual(ok)
    \/ GetClientRect(ok)
    \/ Commit(ok)

Next ==
    \/ \E m \in Messages : PreAssocMsg(m)
    \/ NcCreate
    \/ Invalidate
    \/ DeviceRemoved
    \/ \E w \in Dims, h \in Dims : SizeMsg(w, h)
    \/ DestroyMsg
    \/ OtherMsg
    \/ LoopExit
    \/ PaintStart
    \/ GetDeviceRemovedReason
    \/ \E ok \in BOOLEAN : CreateStep(ok)
    \/ \E formats \in FormatSets, fault \in SurfaceFaults :
          SurfaceState_new(formats, fault)
    \/ \E acquired \in BOOLEAN : clear(acquired)
    \/ \E ok \in BOOLEAN : ValidateRectStep(ok)

Spec == Init /\ [][Next]_vars

\* one step of a paint during which creation succeeds and a texture is acquired
HealthyPaintStep ==
    \/ PaintStart
    \/ GetDeviceRemovedReason
    \/ CreateStep(TRUE)
    \/ \E formats \in { f \in FormatSets : Bgra8UnormSrgb \in f } :
          SurfaceState_new(formats, "none")
    \/ clear(TRUE)
    \/ \E ok \in BOOLEAN : ValidateRectStep(ok)

\* the window lives on, creation succeeds, devices are removed at any time
LiveNext ==
    \/ \E m \in Messages : PreAssocMsg(m)
    \/ NcCreate
    \/ Invalidate
    \/ DeviceRemoved
    \/ \E w \in Dims, h \in Dims : SizeMsg(w, h)
    \/ OtherMsg
    \/ HealthyPaintStep

\* The message loop is the only thread: a dispatched paint runs to its end, a
\* pending update region makes GetMessageA return WM_PAINT, and the window
\* keeps being invalidated (paint requests keep arriving).
LiveSpec ==
    /\ Init
    /\ [][LiveNext]_vars
    /\ WF_vars(HealthyPaintStep)
    /\ WF_vars(Invalidate)

\* lparam values a WM_SIZE may carry: every combination of these low and
\* high words
LoSamples == { 0, 1, 2, 255, 256, 257, 4095, 4096, 32767, 32768, 65534, 65535 }
HiSamples == { 0, 1, 2, 255, 256, 257, 4095, 4096, 32766, 32767 }
Words == { lo + 65536 * hi : lo \in LoSamples, hi \in HiSamples }

\* the state after the first paint built the stack and presented a frame
AfterFirstPaint ==
    /\ hwnd = TheHwnd
    /\ userdata = This
    /\ device = Some(1)
    /\ desktop = Some(1)
    /\ target = Some(1)
    /\ wgpu_state = Some([ width |-> 1, height |-> 1, visual |-> 1,
                           format |-> Bgra8UnormSrgb ])
    /\ pc = "idle"
    /\ msg = WM_PAINT
    /\ call = None
    /\ l_target = None
    /\ l_rect = None
    /\ steps = CreateOrder \o << "clear", "ValidateRect" >>
    /\ err = "none"
    /\ client = << 1, 1 >>
    /\ delivered = None
    /\ invalid = FALSE
    /\ removed = FALSE
    /\ liveTargets = { 1 }
    /\ quit = FALSE
    /\ frame = Some([ width |-> 1, height |-> 1, visual |-> 1 ])
    /\ last_lparam = 0
    /\ caps = { Bgra8UnormSrgb }

\* WM_SIZE with lparam x is handled (message_handler -> size_handler)
SizeWord(x) ==
    /\ Idle
    /\ Associated
    /\ msg' = WM_SIZE
    /\ client' = << x % 65536, x \div 65536 >>
    /\ delivered' = Some(client')
    /\ last_lparam' = x
    /\ wgpu_state' = size_handler(wgpu_state, x)
    /\ UNCHANGED << hwnd, userdata, device, desktop, target, pc, locals, steps,
                    err, invalid, removed, quit, liveTargets, frame, caps >>

WordNext == \E x \in Words : SizeWord(x)

\* resizes of a built window, the size word ranging over Words
WordSpec == AfterFirstPaint /\ [][WordNext]_vars

-----------------------------------------------------------------------------
(* Claims *)

\* a frame has just been presented by the running paint
Rendered == pc = "ValidateRect"

\* the running / last paint went through create_device_resources
Built == Len(steps) > 0 /\ steps[1] = "create_device_3d"

(* C1: whenever a frame is rendered, the width and height of the surface   *)
(* configuration (and so of the frame) equal the client-area size most     *)
(* recently delivered, also for sizes delivered while no surface state     *)
(* existed or between a device loss and the rebuild.                       *)
C1_FrameHasDeliveredSize ==
    Rendered =>
        /\ IsSome(frame) /\ IsSome(wgpu_state)
        /\ << frame[1].width, frame[1].height >> = client
        /\ << wgpu_state[1].width, wgpu_state[1].height >> = client
        /\ IsSome(delivered) => << frame[1].width, frame[1].height >> = delivered[1]

\* a frame rendered by a rebuilt stack, at a size delivered by WM_SIZE
C1_Witness ==
    /\ Rendered
    /\ Built
    /\ IsSome(desktop) /\ frame[1].visual # 1
    /\ delivered = Some(<< 1, 0 >>)

(* C2: a failed liveness query leaves the device stack absent once the     *)
(* paint message is handled, and the next paint request enters             *)
(* create_device_resources, not the liveness check or the render.          *)
C2_LivenessFailureForcesRebuild ==
    /\ [](pc = "idle" /\ err = "GetDeviceRemovedReason" => device = None)
    /\ [][ (pc = "GetDeviceRemovedReason" /\ err' = "GetDeviceRemovedReason")
             => (pc' = "idle" /\ device' = None) ]_vars
    /\ [][ (pc = "idle" /\ err = "GetDeviceRemovedReason" /\ pc' # "idle")
             => (pc' \in { "create_device_3d", "exited" }) ]_vars

\* the liveness query failed on a stack that had presented frames, and the
\* next paint request is pending
C2_Witness ==
    /\ pc = "idle" /\ err = "GetDeviceRemovedReason"
    /\ steps = << "GetDeviceRemovedReason" >>
    /\ IsSome(frame) /\ invalid /\ ~quit

(* C3: create_device_resources is only entered with the device field      *)
(* absent, retries after a creation that failed part-way included.         *)
C3_CreateOnlyWithoutDevice ==
    pc = "create_device_3d" => device = None

\* create is entered again after a creation that had set the device and the
\* target but never committed
C3_Witness ==
    /\ pc = "create_device_3d"
    /\ IsSome(target) /\ desktop = None

(* C4: at most one composition target is alive on the window handle; the   *)
(* target held so far is released before CreateTargetForHwnd is called,    *)
(* and the only live target is the one the controller holds.               *)
C4_AtMostOneTarget ==
    /\ Cardinality(liveTargets) <= 1
    /\ pc = "CreateTargetForHwnd" => liveTargets = {}
    /\ liveTargets = Held(target) \cup Held(l_target)

\* a rebuild is about to create its target after the stack had been built
C4_Witness ==
    /\ pc = "CreateTargetForHwnd"
    /\ IsSome(desktop) /\ IsSome(frame)

(* C5: when a native call of create_device_resources fails, no later call  *)
(* is made, that failure is what the paint reports, the handler returns to *)
(* the message loop with the device stack absent, and the next paint       *)
(* request enters create_device_resources again.                           *)
C5_CreateFailureRecovers ==
    /\ [](pc = "idle" /\ err \in NativeSteps => device = None /\ steps = UpTo(err))
    /\ [][ (pc \in NativeSteps /\ err' # "none")
             => (err' = pc /\ pc' = "idle" /\ device' = None) ]_vars
    /\ [][ (pc = "idle" /\ err \in NativeSteps /\ pc' # "idle")
             => (pc' \in { "create_device_3d", "exited" }) ]_vars

\* Commit, the last native call, failed and the next paint request is pending
C5_Witness ==
    /\ pc = "idle" /\ err = "Commit"
    /\ device = None /\ invalid /\ ~quit

(* C6: a failure to acquire the next texture in clear() propagates to the  *)
(* paint dispatch, which clears the device stack, and the process keeps   *)
(* running and handling messages.                                          *)
C6_TextureFailureIsDeviceLoss ==
    err = "clear" => pc # "aborted" /\ device = None

C8_DeviceIffSurface ==
    pc = "idle" => (IsSome(device) <=> IsSome(wgpu_state))

(* C8 amended: the device stack and the surface state are created by the   *)
(* same paint, but a device loss clears the device stack alone: after      *)
(* every handled message a present device stack implies a present surface  *)
(* state, and a surface state, once present, stays present until the next  *)
(* creation replaces it.                                                   *)
C8_DeviceImpliesSurface ==
    /\ [](pc = "idle" /\ IsSome(device) => IsSome(wgpu_state))
    /\ [][ IsSome(wgpu_state) => IsSome(wgpu_state') ]_vars
    /\ [][ (err' # "none" /\ err = "none") => wgpu_state' = wgpu_state ]_vars

\* a device loss was handled: the device stack is absent, the surface state stays
C8_Witness ==
    /\ pc = "idle" /\ err = "GetDeviceRemovedReason"
    /\ device = None /\ IsSome(wgpu_state)

(* C9: while paint requests keep arriving and creation succeeds, a         *)
(* detected device loss is followed by a presented frame, and a paint      *)
(* whose liveness query finds a healthy device presents a frame.           *)
C9_RecoveryPresentsAgain ==
    /\ (pc = "idle" /\ err = "GetDeviceRemovedReason") ~> Rendered
    /\ (pc = "GetDeviceRemovedReason" /\ ~removed) ~> Rendered

\* a rebuilt stack presents a frame after an earlier stack had presented
C9_Witness ==
    /\ Rendered /\ Built
    /\ IsSome(frame) /\ frame[1].visual = 2
    /\ desktop = Some(2)

(* C10: the device stack, the compositor device, the target and the        *)
(* identity of the surface state change only in the steps of a paint; a    *)
(* resize leaves the first three unchanged and changes at most the width   *)
(* and height of an existing surface state; all four are absent at the     *)
(* start.                                                                  *)
C10_OnlyPaintBuilds ==
    /\ device = None /\ desktop = None /\ target = None /\ wgpu_state = None
    /\ [][ (pc = "idle" /\ pc' = "idle")
             => /\ UNCHANGED << device, desktop, target >>
                /\ Len(wgpu_state') = Len(wgpu_state)
                /\ IsSome(wgpu_state) =>
                      /\ wgpu_state'[1].visual = wgpu_state[1].visual
                      /\ wgpu_state'[1].format = wgpu_state[1].format
                /\ msg' # WM_SIZE => wgpu_state' = wgpu_state ]_vars
    /\ [][ ( \/ << device, desktop, target >>' # << device, desktop, target >>
             \/ Len(wgpu_state') # Len(wgpu_state)
             \/ (IsSome(wgpu_state) /\ wgpu_state'[1].visual # wgpu_state[1].visual) )
             => (msg = WM_PAINT /\ msg' = WM_PAINT) ]_vars

\* a resize changed the size of the surface state that presented the last frame
C10_Witness ==
    /\ pc = "idle" /\ msg = WM_SIZE
    /\ IsSome(wgpu_state) /\ IsSome(frame) /\ IsSome(device)
    /\ frame[1].visual = wgpu_state[1].visual
    /\ frame[1].width # wgpu_state[1].width
    /\ delivered = Some(<< wgpu_state[1].width, wgpu_state[1].height >>)

(* C11: when the formats the adapter reports lack the sRGB BGRA 8-bit      *)
(* format, SurfaceState::new yields no state (it panics): the controller   *)
(* stores nothing from that call, and a stored state never has another     *)
(* format.                                                                 *)
C11_NoFallbackFormat ==
    /\ [](\A i \in 1 .. Len(wgpu_state) : wgpu_state[i].format = Bgra8UnormSrgb)
    /\ [][ (pc = "SurfaceState_new" /\ pc' # pc /\ Bgra8UnormSrgb \notin caps')
             => (pc' = "aborted" /\ wgpu_state' = wgpu_state) ]_vars
    /\ [][ (pc = "SurfaceState_new" /\ pc' = "Commit")
             => (Bgra8UnormSrgb \in caps' /\ wgpu_state'[1].visual = call[1]) ]_vars

\* the adapter reported only another format and creation ended in a panic
C11_Witness ==
    /\ pc = "aborted" /\ err = "SurfaceState_new"
    /\ caps = { Rgba8Unorm }

(* C12: a message that reaches the window procedure before the controller  *)
(* is associated with the window changes no controller state: no paint,    *)
(* resize or exit handling runs for it.                                    *)
C12_PreAssociationFallsThrough ==
    /\ [](userdata = NullPtr =>
            /\ pc = "idle" /\ ~quit /\ steps = << >> /\ err = "none"
            /\ device = None /\ desktop = None /\ target = None
            /\ wgpu_state = None /\ frame = None /\ delivered = None)
    /\ [][ (userdata = NullPtr /\ userdata' = NullPtr)
             => UNCHANGED << hwnd, fields, pc, locals, steps, err, quit, frame,
                             delivered, last_lparam >> ]_vars

\* a paint request reached the window procedure before the association
C12_Witness ==
    /\ userdata = NullPtr /\ msg = WM_PAINT
    /\ pc = "idle" /\ steps = << >>

(* C13: whenever the paint path reaches the render step, after a passed    *)
(* liveness query or a completed create_device_resources, the surface      *)
(* state is present.                                                       *)
C13_RenderHasSurface ==
    pc = "clear" => IsSome(wgpu_state)

\* the render step is reached through the liveness query on a rebuilt stack
C13_Witness ==
    /\ pc = "clear" /\ ~Built
    /\ IsSome(wgpu_state) /\ wgpu_state[1].visual # 1

(* C14: after every handled message, a present device stack comes with a   *)
(* present compositor device, composition target and surface state,        *)
(* however many creations failed before.                                   *)
C14_NoHalfBuiltStack ==
    (pc = "idle" /\ IsSome(device)) =>
        /\ IsSome(desktop) /\ IsSome(target) /\ IsSome(wgpu_state)
        /\ desktop = device /\ target = device
        /\ wgpu_state[1].visual = device[1]

\* a complete stack built after two earlier creations left objects behind
C14_Witness ==
    /\ pc = "idle" /\ err = "none"
    /\ device = Some(3) /\ desktop = Some(3)

(* C15: a frame is never rendered with a surface configuration of zero     *)
(* width or height: after a resize to a zero-area client size, the next    *)
(* paint skips rendering or clamps the size to at least 1x1.               *)
C15_NoZeroAreaFrame ==
    (Rendered /\ IsSome(delivered)) =>
        (frame[1].width >= 1 /\ frame[1].height >= 1)

(* C16 as stated: after a failed liveness query the surface state, the     *)
(* composition target and the compositor device stay unchanged until the   *)
(* next create_device_resources.                                           *)
C16_UnchangedUntilCreate ==
    [][ (pc = "idle" /\ err = "GetDeviceRemovedReason" /\ pc' = "idle")
          => UNCHANGED << wgpu_state, target, desktop >> ]_vars

(* C16 amended: a failed liveness query clears the device-stack reference  *)
(* alone; that paint renders no frame and leaves surface state, target and *)
(* compositor device as they were; until the next create_device_resources  *)
(* target and compositor device stay unchanged and the surface state is    *)
(* kept, changed only in its width and height by a resize.                 *)
C16_OnlyDeviceCleared ==
    /\ [][ (pc = "GetDeviceRemovedReason" /\ err' = "GetDeviceRemovedReason")
             => /\ device' = None
                /\ UNCHANGED << wgpu_state, target, desktop, frame >>
                /\ steps' = << "GetDeviceRemovedReason" >> ]_vars
    /\ [][ (pc = "idle" /\ err = "GetDeviceRemovedReason" /\ pc' = "idle")
             => /\ UNCHANGED << target, desktop, frame >>
                /\ IsSome(wgpu_state) /\ IsSome(wgpu_state')
                /\ wgpu_state'[1].visual = wgpu_state[1].visual
                /\ wgpu_state'[1].format = wgpu_state[1].format
                /\ wgpu_state' # wgpu_state => msg' = WM_SIZE ]_vars

\* after the failed query a resize reconfigured the surface state that is kept
C16_Witness ==
    /\ pc = "idle" /\ err = "GetDeviceRemovedReason" /\ device = None
    /\ msg = WM_SIZE /\ IsSome(wgpu_state) /\ IsSome(frame)
    /\ wgpu_state[1].visual = frame[1].visual
    /\ wgpu_state[1].width # frame[1].width

(* C17: the window handle is stored once, by the window-creation message,  *)
(* before any message reaches the handlers, and never changes: whenever    *)
(* the controller is associated, and so whenever paint, resize or create   *)
(* runs, the stored handle is the handle of the window.                    *)
C17_HandleSetOnce ==
    /\ [](userdata = This => hwnd = TheHwnd)
    /\ [](pc \notin { "idle", "exited" } => hwnd = TheHwnd)
    /\ [][ hwnd' # hwnd => (hwnd = NullHwnd /\ msg' = WM_NCCREATE) ]_vars

\* create_device_resources is about to bind a target to the stored handle
C17_Witness ==
    /\ pc = "CreateTargetForHwnd" /\ msg = WM_PAINT
    /\ hwnd = TheHwnd

(* C18: a frame is rendered only with a surface state built by the         *)
(* create_device_resources call that built the current device stack and    *)
(* composition target; a state left from before a loss or a failed         *)
(* creation is never rendered.                                             *)
C18_RenderUsesCurrentStack ==
    /\ pc = "clear" =>
          /\ IsSome(wgpu_state) /\ IsSome(device) /\ IsSome(target)
          /\ wgpu_state[1].visual = device[1]
          /\ wgpu_state[1].visual = target[1]
    /\ Rendered =>
          /\ IsSome(frame) /\ IsSome(device) /\ IsSome(target)
          /\ frame[1].visual = device[1]
          /\ frame[1].visual = target[1]

\* a frame rendered through the liveness query by a stack built after a loss
C18_Witness ==
    /\ Rendered /\ ~Built
    /\ device = Some(2) /\ frame[1].visual = 2

(* C19: only a destroy notification ends the message loop: whenever the    *)
(* loop has ended, WM_DESTROY had posted the exit signal; no paint,        *)
(* creation or liveness failure ends it.                                   *)
C19_OnlyDestroyEndsLoop ==
    pc \in { "exited", "aborted" } => quit

(* C20: for every size word x the resize handler takes width = x mod 2^16  *)
(* and height = (x div 2^16) mod 2^16; both are below 2^16 and             *)
(* width + 2^16 * height = x.                                              *)
C20_UnpackInvertsPack ==
    msg = WM_SIZE =>
        LET x == last_lparam
            width == wgpu_state[1].width
            height == wgpu_state[1].height
        IN  /\ width = x % 65536
            /\ height = (x \div 65536) % 65536
            /\ width < 65536 /\ height < 65536
            /\ width + 65536 * height = x

\* the largest sampled word was unpacked
C20_Witness ==
    /\ msg = WM_SIZE
    /\ last_lparam = 65535 + 65536 * 32767
    /\ wgpu_state[1].width = 65535 /\ wgpu_state[1].height = 32767

=============================================================================
